---- MODULE Spec2Model ----
(***************************************************************************)
(* A model of redbot/cogs/audio/apis/interface.py (AudioAPIInterface):     *)
(* the deferred write queue (append_task, run_tasks,                       *)
(* run_all_pending_tasks, route_tasks) and the resolution operations that  *)
(* stage writes into it.                                                   *)
(*                                                                         *)
(* Python values are encoded as tagged records so that the comparisons of  *)
(* the source (a tuple compared with the string "insert", the truth value  *)
(* of a list) are computed as Python computes them.                        *)
(***************************************************************************)
EXTENDS Integers, Sequences, FiniteSets, TLC

VARIABLES
    _tasks,      \* self._tasks: insertion-ordered map, a sequence of [k, v]
    _lock,       \* self._lock: 0 (unlocked) or the flush call holding it
    pc,          \* position of each flush call: "idle" (not made yet),
                 \* "gather" (suspended at the gather), "done"
    fl,          \* locals of each flush call while it is suspended
    taking,      \* observation: the take made by the step just taken
    last,        \* observation: the flush call the step just taken finished
    takers,      \* history: staged operation -> number of flushes that took it
    storeCalls,  \* history: the Local Cache Store writes issued so far
    nextOp,      \* history: identity of the next staged tuple object
    runTable,    \* the table the callers of this run stage into
    res,         \* observation: the resolution step just taken
    nRes,        \* history: number of resolution operations started so far
    batch        \* locals of the Spotify batch in flight

vars == <<_tasks, _lock, pc, fl, taking, last, takers, storeCalls, nextOp,
          runTable, res, nRes, batch>>

---------------------------------------------------------------------------
(* Bounds of the model. *)
MaxOps == 4
MaxFlushes == 2
MaxRes == 1
MaxTracks == 2
MaxPages == 2
\* the identities staged tuple objects can have
MaxSerial == MaxOps + 3

(* Request ids (message ids), tables and categories. *)
Ids == {"m1", "m2"}
NoneId == "None"
\* the flush calls of a run, numbered in the order they are made
Calls == 1..MaxFlushes
Tables == {"lavalink", "youtube", "spotify"}
Categories == <<"update", "insert", "global">>

---------------------------------------------------------------------------
(* Python values. *)
NoneV == [tag |-> "None"]
Str(s) == [tag |-> "str", s |-> s]
ListV(items) == [tag |-> "list", items |-> items]
DictV(key) == [tag |-> "dict", key |-> key]
\* the tuple (table, payload) that append_task receives; n is the identity
\* of the tuple object
TaskV(n, table, payload) ==
    [tag |-> "tuple", n |-> n, table |-> table, payload |-> payload]

\* bool(v)
Truthy(v) ==
    CASE v.tag = "None" -> FALSE
      [] v.tag = "str" -> v.s # ""
      [] v.tag = "list" -> Len(v.items) > 0
      [] v.tag = "dict" -> TRUE
      [] v.tag = "tuple" -> TRUE

\* v == "s" for a string literal s
EqStr(v, s) == v.tag = "str" /\ v.s = s

\* {"update": [], "insert": [], "global": []}
EmptySet == [update |-> <<>>, insert |-> <<>>, global |-> <<>>]

---------------------------------------------------------------------------
(* The insertion-ordered map self._tasks. *)
Keys(m) == {m[i].k : i \in 1..Len(m)}
Has(m, k) == k \in Keys(m)
Get(m, k) == (CHOOSE i \in 1..Len(m) : m[i].k = k)
GetV(m, k) == m[Get(m, k)].v
Del(m, k) == SelectSeq(m, LAMBDA e : e.k # k)

\* the staged tuples of one pending set / of the whole map
OpsOfSet(s) ==
    {s.update[i].n : i \in 1..Len(s.update)}
        \cup {s.insert[i].n : i \in 1..Len(s.insert)}
        \cup {s.global[i].n : i \in 1..Len(s.global)}
OpsOfMap(m) == UNION {OpsOfSet(m[i].v) : i \in 1..Len(m)}

---------------------------------------------------------------------------
(* route_tasks: the store writes one call issues, as a set of             *)
(* [method, table, data].                                                  *)
StoreCall(method, table, data) ==
    [method |-> method, table |-> table, data |-> data]

route_tasks(action_type, table, data) ==
    IF ~Truthy(data) THEN {}
    ELSE IF EqStr(action_type, "insert") /\ data.tag = "list" THEN
        IF EqStr(table, "lavalink") THEN {StoreCall("insert", "lavalink", data)}
        ELSE IF EqStr(table, "youtube") THEN {StoreCall("insert", "youtube", data)}
        ELSE IF EqStr(table, "spotify") THEN {StoreCall("insert", "spotify", data)}
        ELSE {}
    ELSE IF EqStr(action_type, "update") THEN
        IF EqStr(table, "lavalink") THEN {StoreCall("update", "lavalink", data)}
        ELSE IF EqStr(table, "youtube") THEN {StoreCall("update", "youtube", data)}
        ELSE IF EqStr(table, "spotify") THEN {StoreCall("update", "spotify", data)}
        ELSE {}
    ELSE {}

\* self.route_tasks(*args): route_tasks takes at most three positional
\* arguments besides self; a longer list raises TypeError at the call
TooManyArgs(args) == Len(args) > 3
Arg(args, i) == IF i <= Len(args) THEN args[i] ELSE NoneV
RouteCall(args) == route_tasks(Arg(args, 1), Arg(args, 2), Arg(args, 3))

\* a handler that names one exception class only
CaughtKeyErrorOnly(exc) == exc = "KeyError"

\* except Exception: the handler of the try block of both flushes
Caught(exc) == exc \in {"AttributeError", "KeyError", "TypeError"}

\* a flush that enters without waiting for the lock
LockIgnored(l) == TRUE

\* async with self._lock: the lock can be taken (0: nobody holds it)
LockFree(l) == l = 0

---------------------------------------------------------------------------
(* append_task *)
append_task(m, ctx, event, task, _id) ==
    LET lock_id == IF _id # NoneId THEN _id ELSE ctx
        m1 == IF ~Has(m, lock_id)
              THEN Append(m, [k |-> lock_id, v |-> EmptySet])
              ELSE m
    IN  [m1 EXCEPT ![Get(m1, lock_id)].v[event] = Append(@, task)]

---------------------------------------------------------------------------
(* run_tasks, lines 121-132: from the acquisition of the lock to the      *)
(* await of asyncio.gather, which has no suspension point.                 *)
RunTasksLockId(ctx, message_id) ==
    IF message_id # NoneId THEN message_id ELSE ctx

\* the try block up to the gather: exc is the exception raised ("none" if
\* the gather is reached), m the map it leaves, took whether the pending
\* set was removed, coros the argument lists of the route_tasks coroutines
RunTasksTry(m, ctx) ==
    IF ctx = NoneId THEN
        [exc |-> "AttributeError", m |-> m, took |-> FALSE,
         tasks |-> EmptySet, coros |-> <<>>]
    ELSE IF ~Has(m, ctx) THEN
        [exc |-> "KeyError", m |-> m, took |-> FALSE,
         tasks |-> EmptySet, coros |-> <<>>]
    ELSE
        LET tasks == GetV(m, ctx)
            m2 == Del(m, ctx)
        IN  IF \E i \in 1..3 : TooManyArgs(tasks[Categories[i]]) THEN
                [exc |-> "TypeError", m |-> m2, took |-> TRUE,
                 tasks |-> tasks, coros |-> <<>>]
            ELSE
                [exc |-> "none", m |-> m2, took |-> TRUE, tasks |-> tasks,
                 coros |-> [i \in 1..3 |-> tasks[Categories[i]]]]

(* run_all_pending_tasks, lines 146-154, up to the gather. *)
RunAllTry(m) ==
    LET tasks == [update |-> [i \in 1..Len(m) |-> ListV(m[i].v.update)],
                  insert |-> [i \in 1..Len(m) |-> ListV(m[i].v.insert)],
                  global |-> [i \in 1..Len(m) |-> ListV(m[i].v.global)]]
    IN  IF \E i \in 1..3 : TooManyArgs(tasks[Categories[i]]) THEN
            [exc |-> "TypeError", m |-> <<>>, took |-> TRUE, coros |-> <<>>]
        ELSE
            [exc |-> "none", m |-> <<>>, took |-> TRUE,
             coros |-> [i \in 1..3 |-> tasks[Categories[i]]]]

\* the answer of a table (a row: val and its stale flag) or of a provider
\* (the response): none was asked for
NoAnswer ==
    [kind |-> "unused", update |-> FALSE, has_error |-> FALSE, tracks |-> 0,
     shape |-> FALSE]
Row(kind) == [NoAnswer EXCEPT !.kind = kind]

\* the arguments of a fetch_track call and the answers it was given
NoArgs ==
    [is_local |-> FALSE, forced |-> FALSE, lazy |-> FALSE,
     cache |-> NoAnswer, api |-> NoAnswer]

\* the locals of a Spotify batch and the player it was given: none is in
\* flight. listing: tracks_from_spotify; pos: the iterations made; aborted:
\* which notice the loop was left with; queue: len(player.queue); current:
\* player.current is set; enqueued: enqueued_tracks
NoBatch ==
    [kind |-> "none", ctx |-> NoneId, level |-> {}, skip_youtube |-> FALSE,
     total |-> 0, pos |-> 0, entries |-> <<>>, urls |-> <<>>, accepted |-> 0,
     has_not_allowed |-> FALSE, fails |-> 0, broke |-> FALSE,
     listing |-> <<>>, track_list |-> <<>>, aborted |-> "none",
     enqueue |-> FALSE, maxlength |-> 0, queue |-> 0, current |-> FALSE,
     enqueued |-> 0]

\* the record kept of a resolution step: none was made by this step.
\* before: the locals of the batch when the step began
NoRes ==
    [op |-> "none", step |-> "none", level |-> {}, args |-> NoArgs,
     trace |-> <<>>, raised |-> "none", ret |-> <<>>, called_api |-> FALSE,
     before |-> NoBatch]

---------------------------------------------------------------------------
(* The record kept of a flush call. staged: what was pending for the      *)
(* flushed id (for every id, in run_all_pending_tasks) when the call       *)
(* entered the lock-guarded section, as [event, task] pairs.               *)
NoFlush ==
    [kind |-> "none", lock_id |-> NoneId, found |-> FALSE, exc |-> "none", toCaller |-> FALSE,
     staged |-> {}, taken |-> {}, coros |-> <<>>, routed |-> {},
     calls |-> {}, failed |-> {}]

\* the take of a flush: the map before and after lines 128-129 / 147-151
NoTake ==
    [kind |-> "none", ctx |-> NoneId, message_id |-> NoneId,
     lock_id |-> NoneId, before |-> <<>>, after |-> <<>>]

StagedOfSet(s) ==
    {[event |-> "update", task |-> s.update[i]] : i \in 1..Len(s.update)}
        \cup {[event |-> "insert", task |-> s.insert[i]] : i \in 1..Len(s.insert)}
        \cup {[event |-> "global", task |-> s.global[i]] : i \in 1..Len(s.global)}
StagedOfMap(m) == UNION {StagedOfSet(m[i].v) : i \in 1..Len(m)}

Took(tk, ns) == [n \in DOMAIN tk |-> IF n \in ns THEN tk[n] + 1 ELSE tk[n]]

\* a flush call ends: its record becomes the last one
Finish(p, rec) ==
    /\ last' = [rec EXCEPT !.coros = <<>>]
    /\ pc' = [pc EXCEPT ![p] = "done"]
    /\ fl' = [fl EXCEPT ![p] = NoFlush]

\* the next flush call to be made
IsNextCall(p) ==
    pc[p] = "idle" /\ \A q \in Calls : q < p => pc[q] # "idle"

\* a flush call reaches the await of asyncio.gather holding the lock
Suspend(p, rec) ==
    /\ _lock' = p
    /\ pc' = [pc EXCEPT ![p] = "gather"]
    /\ fl' = [fl EXCEPT ![p] = rec]
    /\ last' = NoFlush

(* append_task called by some caller, lines 162-167. *)
AppendTask(ctx, event, table) ==
    /\ nextOp <= MaxOps
    /\ table = runTable
    /\ LET payload == IF event = "insert" THEN ListV(<<nextOp>>)
                      ELSE DictV(nextOp)
       IN  _tasks' = append_task(_tasks, ctx, event,
                                 TaskV(nextOp, table, payload), NoneId)
    /\ nextOp' = nextOp + 1
    /\ last' = NoFlush
    /\ taking' = NoTake
    /\ UNCHANGED <<_lock, pc, fl, takers, storeCalls, runTable, nRes, batch>>
    /\ res' = NoRes

(* run_tasks(ctx, message_id), lines 119-139, up to the gather. *)
RunTasks(p, ctx, message_id) ==
    /\ IsNextCall(p)
    /\ UNCHANGED <<storeCalls, nextOp, runTable, nRes, batch>>
    /\ res' = NoRes
    /\ LET rec0 == [NoFlush EXCEPT !.kind = "run_tasks"]
           take0 == [NoTake EXCEPT !.kind = "run_tasks", !.ctx = ctx,
                                   !.message_id = message_id,
                                   !.before = _tasks, !.after = _tasks]
       IN
       IF message_id = NoneId /\ ctx = NoneId THEN
           \* line 121: ctx.message on None raises before the lock is taken
           /\ Finish(p, [rec0 EXCEPT !.exc = "AttributeError",
                                     !.toCaller = TRUE])
           /\ taking' = take0
           /\ UNCHANGED <<_tasks, _lock, takers>>
       ELSE
           /\ LockFree(_lock)
           /\ LET lock_id == RunTasksLockId(ctx, message_id)
                  rec1 == [rec0 EXCEPT !.lock_id = lock_id]
              IN
              IF ~Has(_tasks, lock_id) THEN
                  /\ Finish(p, rec1)
                  /\ taking' = [take0 EXCEPT !.lock_id = lock_id]
                  /\ UNCHANGED <<_tasks, _lock, takers>>
              ELSE
                  LET t == RunTasksTry(_tasks, ctx)
                      ns == IF t.took THEN OpsOfSet(t.tasks) ELSE {}
                      rec2 == [rec1 EXCEPT
                                  !.found = TRUE, !.exc = t.exc,
                                  !.staged = StagedOfSet(GetV(_tasks, lock_id)),
                                  !.taken = ns, !.coros = t.coros]
                  IN  /\ _tasks' = t.m
                      /\ takers' = Took(takers, ns)
                      /\ taking' = [take0 EXCEPT !.lock_id = lock_id,
                                                  !.after = t.m]
                      /\ IF t.exc = "none" THEN Suspend(p, rec2)
                         ELSE /\ Finish(p, [rec2 EXCEPT
                                               !.toCaller = ~Caught(t.exc)])
                              /\ UNCHANGED _lock

(* run_all_pending_tasks(), lines 141-160, up to the gather. *)
RunAllPendingTasks(p) ==
    /\ IsNextCall(p)
    /\ UNCHANGED <<storeCalls, nextOp, runTable, nRes, batch>>
    /\ res' = NoRes
    /\ LockFree(_lock)
    /\ LET t == RunAllTry(_tasks)
           ns == OpsOfMap(_tasks)
           rec == [NoFlush EXCEPT !.kind = "run_all_pending_tasks",
                                  !.found = TRUE, !.exc = t.exc,
                                  !.staged = StagedOfMap(_tasks),
                                  !.taken = ns, !.coros = t.coros]
       IN  /\ _tasks' = t.m
           /\ takers' = Took(takers, ns)
           /\ taking' = [NoTake EXCEPT !.kind = "run_all_pending_tasks",
                                       !.before = _tasks, !.after = t.m]
           /\ IF t.exc = "none" THEN Suspend(p, rec)
              ELSE /\ Finish(p, [rec EXCEPT !.toCaller = ~Caught(t.exc)])
                   /\ UNCHANGED _lock

(* The await of asyncio.gather with return_exceptions=True of either      *)
(* flush: the three route_tasks coroutines run, a store write that raises *)
(* is returned by the gather as a value, and the lock is released.        *)
Gather(p) ==
    /\ pc[p] = "gather"
    /\ \E raising \in SUBSET (1..3) :
        LET rec == fl[p]
            issued(i) == {[method |-> x.method, table |-> x.table,
                           data |-> x.data, by |-> rec.kind] :
                          x \in RouteCall(rec.coros[i])}
            calls == UNION {issued(i) : i \in 1..3}
            failed == UNION {issued(i) : i \in raising}
        IN  /\ storeCalls' = storeCalls \cup calls
            /\ Finish(p, [rec EXCEPT !.routed = 1..3, !.calls = calls,
                                     !.failed = failed])
    /\ _lock' = 0
    /\ taking' = NoTake
    /\ UNCHANGED <<_tasks, takers, nextOp, runTable, nRes, batch>>
    /\ res' = NoRes

---------------------------------------------------------------------------
\* what every run starts from, whatever is pending
InitRest ==
    /\ _lock = 0
    /\ pc = [p \in Calls |-> "idle"]
    /\ fl = [p \in Calls |-> NoFlush]
    /\ taking = NoTake
    /\ last = NoFlush
    /\ takers = [n \in 1..MaxSerial |-> 0]
    /\ storeCalls = {}
    /\ nextOp = 1
    /\ res = NoRes
    /\ nRes = 0
    /\ batch = NoBatch
    /\ runTable \in Tables

\* the state after construction
Init == _tasks = <<>> /\ InitRest

\* a state reached by three earlier append_task calls of three requests
\* (m1 staged a lavalink insert, m3 a youtube update and m4 a spotify
\* update), none flushed yet
Loaded ==
    LET a == MaxOps + 1
        b == MaxOps + 2
        c == MaxOps + 3
        m1 == append_task(<<>>, "m1", "insert",
                          TaskV(a, "lavalink", ListV(<<a>>)), NoneId)
        m2 == append_task(m1, "m3", "update",
                          TaskV(b, "youtube", DictV(b)), NoneId)
    IN  append_task(m2, "m4", "update", TaskV(c, "spotify", DictV(c)), NoneId)

InitLoaded == InitRest /\ runTable = "lavalink" /\ _tasks = Loaded

Next ==
    \/ \E ctx \in Ids, event \in {"update", "insert"}, table \in Tables :
           AppendTask(ctx, event, table)
    \/ \E p \in Calls, ctx \in Ids \cup {NoneId}, message_id \in Ids \cup {NoneId} :
           RunTasks(p, ctx, message_id)
    \/ \E p \in Calls : RunAllPendingTasks(p)
    \/ \E p \in Calls : Gather(p)

Spec == Init /\ [][Next]_vars

SpecLoaded == InitLoaded /\ [][Next]_vars

---------------------------------------------------------------------------
(* The resolution operations. Each step of one records what it did, in    *)
(* order, as a trace of events: a local-cache read ("read"), a call of an *)
(* external provider ("api"), an operation handed to append_task          *)
(* ("stage") and a store write issued directly ("write"); and how it      *)
(* ended. The answers of the store and of the providers are inputs.       *)

Scopes == {"spotify", "youtube", "lavalink"}
Levels == SUBSET Scopes

\* CacheLevel.set_<scope>().is_subset(current_cache_level)
is_subset(scope, level) == scope \in level

Ev(type, table, key, what, payload) ==
    [type |-> type, table |-> table, key |-> key, what |-> what,
     payload |-> payload]
Read(table, key, outcome) == Ev("read", table, key, outcome, NoneV)
Api(table, key, outcome) == Ev("api", table, key, outcome, NoneV)

\* a store write issued at once instead of being staged
WriteNow(event, table, key, payload) == Ev("write", table, key, event, payload)

\* task = (event, (table, payload)); self.append_task(ctx, *task)
Stage(event, table, key, payload) == Ev("stage", table, key, event, payload)

\* a fetch_one whose exception is not handled
fetch_one_unguarded(outcome) ==
    [kind |-> outcome.kind, update |-> outcome.update,
     exc |-> outcome.kind = "raise"]

\* try: (val, update) = await <table>.fetch_one(...) / except Exception: log
\* (lines 215-220, 336-344, 457-462, 647-650, 705-708). kind "raise": the
\* call raised and val keeps the None it was initialised with
fetch_one(outcome) ==
    [kind |-> outcome.kind, update |-> outcome.update, exc |-> FALSE]

\* how a call ends
Ended(trace, raised, ret, called_api) ==
    [trace |-> trace, raised |-> raised, ret |-> ret, called_api |-> called_api]

---------------------------------------------------------------------------
(* fetch_track, lines 662-784. LoadResult is [kind, has_error, tracks,    *)
(* shape]: shape says that the serialized response holds loadType,        *)
(* playlistInfo, isSeekable and isStream.                                  *)
\* a LoadResult that never reports an error
LoadResultWithoutError(kind, r) ==
    [kind |-> kind, has_error |-> FALSE, tracks |-> r.tracks,
     shape |-> r.shape]

LoadResult(kind, r) ==
    [kind |-> kind, has_error |-> r.has_error, tracks |-> r.tracks,
     shape |-> r.shape]
NoResult == [kind |-> "none", has_error |-> FALSE, tracks |-> 0, shape |-> FALSE]
\* LoadResult({"loadType": "LOAD_FAILED", "playlistInfo": {}, "tracks": []})
LoadFailed == [kind |-> "failed", has_error |-> TRUE, tracks |-> 0, shape |-> FALSE]

\* an end of fetch_track that does not look at the serialized response
fetch_track_end_any_shape(level, is_local, query, results0) ==
    LET results == IF results0.kind = "none" THEN LoadFailed ELSE results0
        staged == /\ is_subset("lavalink", level)
                  /\ ~results.has_error
                  /\ ~is_local
                  /\ results.tracks > 0
    IN  [results |-> results,
         trace |-> IF staged
                   THEN <<Stage("insert", "lavalink", query, ListV(<<query>>))>>
                   ELSE <<>>]

\* lines 750-784: the result returned and the insert staged for it
fetch_track_end(level, is_local, query, results0) ==
    LET results == IF results0.kind = "none" THEN LoadFailed ELSE results0
        staged == /\ is_subset("lavalink", level)
                  /\ ~results.has_error
                  /\ ~is_local
                  /\ results.tracks > 0
                  /\ results.shape
    IN  [results |-> results,
         trace |-> IF staged
                   THEN <<Stage("insert", "lavalink", query, ListV(<<query>>))>>
                   ELSE <<>>]

\* lines 740-749: player.load_tracks(query)
load_tracks(query, api) ==
    [trace |-> <<Api("lavalink", query, api.kind)>>,
     results |-> IF api.kind = "result" THEN LoadResult("api", api) ELSE NoResult,
     raised |-> CASE api.kind = "RuntimeError" -> "TrackEnqueueError"
                  [] api.kind = "TimeoutError" -> "TimeoutError"
                  [] api.kind = "ServerDisconnectedError" -> "ServerDisconnectedError"
                  [] OTHER -> "none"]

RECURSIVE fetch_track(_, _, _, _, _, _, _)
fetch_track(level, is_local, query, forced, lazy, cache, api) ==
    LET cache_enabled == is_subset("lavalink", level)
        lookup == cache_enabled /\ ~forced /\ ~is_local
        got == fetch_one(cache)
        read == IF lookup THEN <<Read("lavalink", query, cache.kind)>> ELSE <<>>
        \* lines 710-722: val is kept only if it is a non-empty dict
        val == lookup /\ got.kind = "dict"
        upd == IF val
               THEN <<Stage("update", "lavalink", query, DictV(query))>>
               ELSE <<>>
        done(trace, results0, called_api) ==
            LET e == fetch_track_end(level, is_local, query, results0)
            IN  Ended(trace \o e.trace, "none", e.results, called_api)
    IN  IF lookup /\ got.exc THEN
            Ended(read, "StorageError", NoResult, FALSE)
        ELSE IF lazy THEN
            done(read \o upd, NoResult, FALSE)
        ELSE IF val /\ ~forced THEN
            LET results == LoadResult("cache", cache)
            IN  IF results.has_error THEN
                    LET inner == fetch_track(level, is_local, query, TRUE,
                                             FALSE, cache, api)
                    IN  IF inner.raised # "none" THEN
                            Ended(read \o upd \o inner.trace, inner.raised,
                                  NoResult, FALSE)
                        ELSE done(read \o upd \o inner.trace, inner.ret,
                                  inner.called_api)
                ELSE done(read \o upd, results, FALSE)
        ELSE
            LET l == load_tracks(query, api)
            IN  IF l.raised # "none" THEN
                    Ended(read \o upd \o l.trace, l.raised, NoResult, TRUE)
                ELSE done(read \o upd \o l.trace, l.results, TRUE)

\* what the Lavalink table and the playable-track provider can answer
LoadShapes ==
    {[has_error |-> FALSE, tracks |-> 1, shape |-> TRUE],
     [has_error |-> FALSE, tracks |-> 1, shape |-> FALSE],
     [has_error |-> FALSE, tracks |-> 0, shape |-> FALSE],
     [has_error |-> TRUE, tracks |-> 0, shape |-> FALSE]}
LavalinkRows ==
    {Row("raise"), Row("None"), Row("str")}
        \cup {[kind |-> "dict", update |-> u, has_error |-> r.has_error,
               tracks |-> r.tracks, shape |-> r.shape] :
              u \in BOOLEAN, r \in LoadShapes}
LoadAnswers ==
    {Row(k) : k \in {"KeyError", "RuntimeError", "TimeoutError",
                     "ServerDisconnectedError"}}
        \cup {[kind |-> "result", update |-> FALSE, has_error |-> r.has_error,
               tracks |-> r.tracks, shape |-> r.shape] : r \in LoadShapes}

\* the inputs of a fetch_track call that can change what it does
FetchInputs(level, is_local, forced, lazy) ==
    LET lookup == is_subset("lavalink", level) /\ ~forced /\ ~is_local
        rows == IF lookup THEN LavalinkRows ELSE {NoAnswer}
        asks(c) == ~lazy /\ (c.kind # "dict" \/ c.has_error)
    IN  {x \in [cache : rows, api : LoadAnswers \cup {NoAnswer}] :
         (x.api = NoAnswer) <=> ~asks(x.cache)}

---------------------------------------------------------------------------
(* youtube_query and _youtube_first_time_query, lines 610-660. *)
Url(track_info) == "yt:" \o track_info

\* val as a table lookup leaves it: None after a raise or a miss
RowVal(got, hit) ==
    CASE got.kind = "str" -> Str(hit)
      [] got.kind = "empty" -> Str("")
      [] OTHER -> NoneV

_youtube_first_time_query(level, track_info, api) ==
    LET call == <<Api("youtube", track_info, api)>>
        track_url == IF api = "url" THEN Str(Url(track_info)) ELSE NoneV
        staged == is_subset("youtube", level) /\ Truthy(track_url)
    IN  IF api = "raise" THEN
            [trace |-> call, raised |-> "YouTubeApiError", val |-> NoneV]
        ELSE
            [trace |-> call \o
                       (IF staged
                        THEN <<Stage("insert", "youtube", track_info,
                                     ListV(<<track_info>>))>>
                        ELSE <<>>),
             raised |-> "none", val |-> track_url]

\* a lookup that reads the table whatever the cache level is
youtube_lookup_any_level(level, track_info, cache) ==
    [trace |-> <<Read("youtube", track_info, cache.kind)>>,
     exc |-> FALSE,
     val |-> RowVal(fetch_one(cache), Url(track_info))]

\* lines 645-650 and the same lookup of the two batch loops (213-220,
\* 454-462): the YouTube-table read and the val it leaves
youtube_lookup(level, track_info, cache) ==
    LET cache_enabled == is_subset("youtube", level)
        got == fetch_one(cache)
    IN  [trace |-> IF cache_enabled
                   THEN <<Read("youtube", track_info, cache.kind)>>
                   ELSE <<>>,
         exc |-> cache_enabled /\ got.exc,
         val |-> IF cache_enabled THEN RowVal(got, Url(track_info)) ELSE NoneV]

youtube_query(level, track_info, cache, api) ==
    LET cache_enabled == is_subset("youtube", level)
        look == youtube_lookup(level, track_info, cache)
    IN  IF look.exc THEN Ended(look.trace, "StorageError", NoneV, FALSE)
        ELSE IF look.val = NoneV THEN
            LET first == _youtube_first_time_query(level, track_info, api)
            IN  Ended(look.trace \o first.trace, first.raised, first.val, FALSE)
        ELSE
            Ended(look.trace \o
                      (IF cache_enabled
                       THEN <<Stage("update", "youtube", track_info,
                                    DictV(track_info))>>
                       ELSE <<>>),
                  "none", look.val, FALSE)

YoutubeRows == {Row(k) : k \in {"raise", "None", "empty", "str"}}
YoutubeAnswers == {"url", "None", "raise"}

\* the inputs of a YouTube resolution that can change what it does
YoutubeInputs(level) ==
    LET rows == IF is_subset("youtube", level) THEN YoutubeRows ELSE {NoAnswer}
    IN  {x \in [cache : rows, api : YoutubeAnswers \cup {"unused"}] :
         (x.api = "unused") <=> x.cache.kind \in {"empty", "str"}}

---------------------------------------------------------------------------
(* spotify_query and _spotify_first_time_query, lines 169-240 and         *)
(* 306-363. The listing _spotify_fetch_tracks returns is an input: the    *)
(* number of its tracks, or that it raised SpotifyFetchError.              *)
TrackKey(i) == "t" \o ToString(i)
SpotifyUri == "spotify:track:uri"

\* lines 333-346 and 358-362: the Spotify-table read, and the hit
spotify_query_start(level, query_type, cache) ==
    LET cache_enabled == is_subset("spotify", level)
        lookup == query_type = "track" /\ cache_enabled
        got == fetch_one(cache)
        read == IF lookup THEN <<Read("spotify", SpotifyUri, cache.kind)>>
                ELSE <<>>
        val == IF lookup THEN RowVal(got, Url(SpotifyUri)) ELSE NoneV
    IN  IF lookup /\ got.exc THEN
            [trace |-> read, raised |-> "StorageError", hit |-> FALSE, val |-> NoneV]
        ELSE IF val = NoneV THEN
            [trace |-> read, raised |-> "none", hit |-> FALSE, val |-> NoneV]
        ELSE
            [trace |-> read \o
                       (IF lookup
                        THEN <<Stage("update", "spotify", SpotifyUri,
                                     DictV(SpotifyUri))>>
                        ELSE <<>>),
             raised |-> "none", hit |-> TRUE, val |-> val]

\* line 180 / lines 412-414: the listing is fetched from the Spotify API
spotify_listing(listing) ==
    [trace |-> <<Api("spotify", SpotifyUri,
                     IF listing.raise THEN "raise" ELSE "listing")>>,
     raised |-> IF listing.raise THEN "SpotifyFetchError" ELSE "none"]

\* await notifier.notify_user(current=..., total=..., key=...)
notify_user(current, total, key) ==
    Ev("progress", "notifier", ToString(current), key, Str(ToString(total)))

\* lines 235-236 and 502-512: the progress shown for the count of the track
progress(track_count, total_tracks, key) ==
    IF (track_count % 2 = 0) \/ (track_count = total_tracks)
    THEN <<notify_user(track_count, total_tracks, key)>>
    ELSE <<>>

\* lines 186-236: one iteration of the loop of _spotify_first_time_query,
\* entered with track_count tracks counted. entry: the track was appended
\* to database_entries; url: what was appended to youtube_urls (None:
\* nothing)
query_track(level, skip_youtube, invalid, track_info, cache, api, track_count, total_tracks) ==
    IF invalid THEN
        [trace |-> <<>>, raised |-> "none", entry |-> FALSE, url |-> NoneV]
    ELSE IF skip_youtube THEN
        [trace |-> progress(track_count + 1, total_tracks, "youtube"),
         raised |-> "none", entry |-> TRUE, url |-> Str(track_info)]
    ELSE
        LET youtube_cache == is_subset("youtube", level)
            look == youtube_lookup(level, track_info, cache)
            miss == look.val = NoneV
            first == _youtube_first_time_query(level, track_info, api)
            val == IF miss THEN first.val ELSE look.val
            upd == IF youtube_cache /\ Truthy(val)
                   THEN <<Stage("update", "youtube", track_info,
                                DictV(track_info))>>
                   ELSE <<>>
        IN  IF look.exc THEN
                [trace |-> look.trace, raised |-> "StorageError",
                 entry |-> TRUE, url |-> NoneV]
            ELSE IF miss /\ first.raised # "none" THEN
                [trace |-> look.trace \o first.trace, raised |-> first.raised,
                 entry |-> TRUE, url |-> NoneV]
            ELSE
                [trace |-> look.trace \o (IF miss THEN first.trace ELSE <<>>)
                               \o upd
                               \o progress(track_count + 1, total_tracks,
                                           "youtube"),
                 raised |-> "none", entry |-> TRUE,
                 url |-> IF Truthy(val) THEN val ELSE NoneV]

\* lines 237-240 / 600-602: the batch of Spotify rows is staged
stage_entries(level, entries) ==
    IF is_subset("spotify", level)
    THEN <<Stage("insert", "spotify", SpotifyUri, ListV(entries))>>
    ELSE <<>>

SpotifyRows == {Row(k) : k \in {"raise", "None", "empty", "str"}}
Listing(n) == [raise |-> FALSE, n |-> n]
ListingFails == [raise |-> TRUE, n |-> 0]
Listings == {ListingFails} \cup {Listing(n) : n \in 0..MaxTracks}

\* A page of a listing as the Spotify client answers it. error: "none", or
\* the status of the error envelope ("401", or "other"); items: the length
\* of its items; playable: how many of the items hold a track; next: it has
\* a next cursor
Page(error, items, playable, next) ==
    [error |-> error, items |-> items, playable |-> playable, next |-> next]
\* return {"next": None}, line 266
NoNext == Page("none", 0, 0, FALSE)

\* await self.spotify_api.get_call(...), lines 252-256: the answer to the
\* i-th call made for a listing
get_call(pages, i) ==
    [trace |-> <<Api("spotify",
                     IF i = 1 THEN SpotifyUri ELSE "next" \o ToString(i),
                     IF pages[i].error = "none" THEN "page" ELSE pages[i].error)>>,
     results |-> pages[i]]

\* lines 272-287: the tracks an iteration of the loop takes from results
new_tracks(query_type, results) ==
    CASE query_type = "track" -> 1
      [] query_type = "album" -> results.items
      [] OTHER -> results.playable

\* lines 252-270 for a call made with a next cursor: what it returns
later_page(results) == IF results.error # "none" THEN NoNext ELSE results

\* lines 271-304: the loop over the pages; results is the i-th page, n the
\* number of tracks collected before it
RECURSIVE spotify_pages(_, _, _, _, _, _)
spotify_pages(query_type, pages, i, results, n, trace) ==
    LET m == n + new_tracks(query_type, results)
        g == get_call(pages, i + 1)
    IN  IF results.next
        THEN spotify_pages(query_type, pages, i + 1, later_page(g.results), m,
                           trace \o g.trace)
        ELSE [trace |-> trace, raised |-> "none", n |-> m]

\* _spotify_fetch_tracks called without a cursor, lines 242-304: n is the
\* length of the list it returns
_spotify_fetch_tracks(query_type, pages) ==
    LET g == get_call(pages, 1)
    IN  IF g.results.error = "401"
        THEN [trace |-> g.trace, raised |-> "SpotifyFetchError", n |-> 0]
        ELSE spotify_pages(query_type, pages, 1, g.results, 0, g.trace)

\* the pages a listing can be answered with: every page but the last has a
\* next cursor, and an error envelope is the last answer
PageErrors == {"401", "other"}
PagesOf(len) ==
    {pages \in [1..len -> [error : {"none"} \cup PageErrors,
                           items : 0..MaxTracks, playable : 0..MaxTracks,
                           next : BOOLEAN]] :
        \A i \in 1..len :
            /\ pages[i].playable <= pages[i].items
            /\ pages[i].next <=> i < len
            /\ pages[i].error # "none" => (i = len /\ pages[i].items = 0)}
PageLists(query_type) ==
    IF query_type = "track" THEN PagesOf(1)
    ELSE UNION {PagesOf(len) : len \in 1..MaxPages}

\* tracks_from_spotify / tracks: the tracks of a listing, in its order
TracksOf(n) == [i \in 1..n |-> TrackKey(i)]

\* a loop that takes the tracks from the end of the listing
last_track_first(listing, pos) == listing[Len(listing) - pos]

\* for track in tracks (line 186), for track_count, track in
\* enumerate(tracks_from_spotify) (line 430): the track of the iteration
\* made after pos others
next_track(listing, pos) == listing[pos + 1]

---------------------------------------------------------------------------
(* spotify_enqueue, lines 365-608: the cache reads, provider calls and    *)
(* staged writes of the batch, and what decides how the batch ends.       *)

\* except (RuntimeError, aiohttp.ServerDisconnectedError) / except
\* asyncio.TimeoutError, lines 483-498: the exceptions that end the loop.
\* TrackEnqueueError is imported from ..errors and is not a RuntimeError.
BreaksLoop(exc) ==
    exc \in {"RuntimeError", "ServerDisconnectedError", "TimeoutError"}

\* if consecutive_fails >= 10, line 514
FailLimit == 10
\* if len(player.queue) >= 10000, line 540
QueueCap == 10000

\* await notifier.update_embed(embed): the notice shown to the user
Notice(track_info, what) == Ev("notice", "notifier", track_info, what, NoneV)

\* lock(ctx, False): the enqueue lock of the request is released
unlock(ctx) == Ev("unlock", "lock", ctx, "False", NoneV)

\* an exit that releases the lock only when an exception passes through
release_on_error(ctx, r) ==
    [r EXCEPT !.trace = @ \o (IF r.raised # "none" THEN <<unlock(ctx)>>
                              ELSE <<>>)]

\* lines 603-607: the except clause releases the lock and raises again, the
\* finally clause releases it on every way out of the try block
release(ctx, r) ==
    [r EXCEPT !.trace = @ \o (IF r.raised # "none" THEN <<unlock(ctx)>>
                              ELSE <<>>)
                          \o <<unlock(ctx)>>]

\* the notice of the handler that ends the loop, lines 483-498
BreakNotice(exc) == IF exc = "TimeoutError" THEN "timeout" ELSE "reset"

\* lines 430-538: one iteration of the loop, track_count being the index
\* enumerate gives the track. tracks: the length of track_object; accepted:
\* the track was appended to track_list; aborted: the notice the loop was
\* left with
enqueue_track(ctx, level, track_info, cache, api, llcache, llapi, allowed, fails, track_count, total_tracks) ==
    LET youtube_cache == is_subset("youtube", level)
        look == youtube_lookup(level, track_info, cache)
        miss == look.val = NoneV
        first == _youtube_first_time_query(level, track_info, api)
        val == IF miss THEN first.val ELSE look.val
        upd == IF youtube_cache /\ Truthy(val)
               THEN <<Stage("update", "youtube", track_info, DictV(track_info))>>
               ELSE <<>>
        yt == look.trace \o (IF miss THEN first.trace ELSE <<>>) \o upd
        ft == fetch_track(level, FALSE, val.s, FALSE, FALSE, llcache, llapi)
        out(trace, raised, aborted, tracks, accepted, filtered, fails2) ==
            [trace |-> trace, raised |-> raised, broke |-> aborted # "none",
             aborted |-> aborted, tracks |-> tracks, accepted |-> accepted,
             filtered |-> filtered, fails |-> fails2]
    IN  IF look.exc THEN
            out(look.trace, "StorageError", "none", 0, FALSE, FALSE, fails)
        ELSE IF miss /\ first.raised # "none" THEN
            out(look.trace \o first.trace, first.raised, "none", 0, FALSE,
                FALSE, fails)
        ELSE IF Truthy(val) /\ ft.raised # "none" THEN
            IF BreaksLoop(ft.raised)
            THEN out(yt \o ft.trace
                        \o <<unlock(ctx),
                             Notice(track_info, BreakNotice(ft.raised))>>,
                     "none", BreakNotice(ft.raised), 0, FALSE, FALSE, fails)
            ELSE out(yt \o ft.trace, ft.raised, "none", 0, FALSE, FALSE, fails)
        ELSE
            LET trace == (IF Truthy(val) THEN yt \o ft.trace ELSE yt)
                             \o progress(track_count, total_tracks, "lavalink")
                tracks == IF Truthy(val) THEN ft.ret.tracks ELSE 0
            IN  IF fails >= FailLimit THEN
                    out(trace \o <<Notice(track_info, "failing")>>, "none",
                        "failing", tracks, FALSE, FALSE, fails)
                ELSE IF tracks = 0 THEN
                    out(trace, "none", "none", 0, FALSE, FALSE, fails + 1)
                ELSE IF ~allowed THEN
                    out(trace, "none", "none", tracks, FALSE, TRUE, 0)
                ELSE
                    out(trace, "none", "none", tracks, TRUE, FALSE, 0)

\* a queue that is never taken to be full
queue_never_full(queue) == FALSE

\* if len(player.queue) >= 10000: continue, lines 540-541
queue_full(queue) == queue >= QueueCap

\* player.add(ctx.author, single_track) and the red_audio_track_enqueue
\* event dispatched for it, lines 544-551 and 553-560
player_add(player, track_info) ==
    [queue |-> player.queue + 1, current |-> player.current,
     enqueued |-> player.enqueued + 1,
     trace |-> player.trace \o <<Ev("add", "player", track_info, "", NoneV),
                                 Ev("dispatch", "bot", track_info,
                                    "red_audio_track_enqueue", NoneV)>>]

\* await player.play(), line 563: the player takes the head of its queue
\* as its current track, and stops if the queue is empty
player_play(player, track_info) ==
    [queue |-> IF player.queue > 0 THEN player.queue - 1 ELSE 0,
     current |-> player.queue > 0,
     enqueued |-> player.enqueued,
     trace |-> player.trace \o <<Ev("play", "player", track_info, "", NoneV)>>]

\* lines 539-563: what is done with a track appended to track_list.
\* within: what self.track_limit(single_track, maxlength) answers
enqueue_add(b, track_info, within) ==
    LET p0 == [queue |-> b.queue, current |-> b.current,
               enqueued |-> b.enqueued, trace |-> <<>>]
        p1 == IF b.maxlength > 0 /\ ~within THEN p0
              ELSE player_add(p0, track_info)
    IN  IF ~b.enqueue THEN p0
        ELSE IF queue_full(b.queue) THEN p0
        ELSE IF ~p1.current THEN player_play(p1, track_info)
        ELSE p1

\* an end of the batch that raises whenever no track was accepted
enqueue_end_unfiltered(ctx, level, entries, track_list, has_not_allowed, enqueue) ==
    IF track_list = <<>> THEN
        Ended(<<>>, "SpotifyFetchError", track_list, FALSE)
    ELSE
        Ended((IF enqueue THEN <<Notice("", "enqueued")>> ELSE <<>>)
                  \o <<unlock(ctx)>>
                  \o stage_entries(level, entries),
              "none", track_list, FALSE)

\* lines 564-602: the end of the batch, inside the try block
enqueue_end(ctx, level, entries, track_list, has_not_allowed, enqueue) ==
    IF track_list = <<>> /\ ~has_not_allowed THEN
        Ended(<<>>, "SpotifyFetchError", track_list, FALSE)
    ELSE
        Ended((IF enqueue THEN <<Notice("", "enqueued")>> ELSE <<>>)
                  \o <<unlock(ctx)>>
                  \o stage_entries(level, entries),
              "none", track_list, FALSE)

\* the rows and answers a batch iteration is run with
BatchRows ==
    {Row("raise"), Row("None")}
        \cup {[kind |-> "dict", update |-> FALSE, has_error |-> r.has_error,
               tracks |-> r.tracks, shape |-> r.shape] :
              r \in {x \in LoadShapes : x.shape \/ x.has_error}}
BatchAnswers ==
    {Row(k) : k \in {"RuntimeError", "TimeoutError"}}
        \cup {[kind |-> "result", update |-> FALSE, has_error |-> r.has_error,
               tracks |-> r.tracks, shape |-> r.shape] :
              r \in {x \in LoadShapes : x.shape \/ x.has_error}}

\* the inputs of the fetch_track call of an iteration
BatchFetchInputs(level) ==
    {x \in FetchInputs(level, FALSE, FALSE, FALSE) :
        /\ x.cache \in BatchRows \cup {NoAnswer}
        /\ x.api \in BatchAnswers \cup {NoAnswer}}

---------------------------------------------------------------------------
(* autoplay, lines 786-861, and get_random_track_from_db, lines 65-92. *)

\* lines 828-853: the draws of a pool; draws[k] says whether the k-th
\* candidate drawn passes the checks. Returns the number of candidates
\* drawn, or -1 for DatabaseError
RECURSIVE autoplay_draw(_, _, _)
autoplay_draw(tries, draws, drawn) ==
    IF tries - 1 <= 0 THEN -1
    ELSE IF Head(draws) THEN drawn + 1
    ELSE autoplay_draw(tries - 1, Tail(draws), drawn + 1)

\* lines 65-92: get_random_track_from_db, any exception gives no track
get_random_track_from_db(db) ==
    [trace |-> <<Ev("random", "lavalink", "random", db, NoneV)>>,
     track |-> db = "track"]

_TOP_100_US ==
    "https://www.youtube.com/playlist?list=PL4fGSI1pDJn5rWitrRWFKdm-ulaFiIyoK"

\* playlist: the number of tracks of the autoplaylist (0: it is disabled,
\* get_playlist failed or it is empty); sized: whether len() and [0] are defined
\* on the object get_random_track_from_db returns; draws: for a pool of two
\* or more, whether the k-th candidate drawn passes the checks of lines
\* 834-852, and for a pool of one whether tracks[0] would pass them.
\* Returns pool: len(tracks); drawn: the candidates drawn; enqueued: a track
\* was tagged and added; passed: that track passes the checks
autoplay(level, playlist, db, sized, cache, api, draws) ==
    LET cache_enabled == is_subset("lavalink", level)
        listed == playlist
        rnd == IF listed = 0 /\ cache_enabled
               THEN get_random_track_from_db(db)
               ELSE [trace |-> <<>>, track |-> FALSE]
        fetches == listed = 0 /\ ~rnd.track
        ft == fetch_track(level, FALSE, _TOP_100_US, FALSE, FALSE, cache, api)
        trace == IF fetches THEN rnd.trace \o ft.trace ELSE rnd.trace
        pool == IF listed > 0 THEN listed
                ELSE IF rnd.track THEN 1
                ELSE ft.ret.tracks
        end(raised, enqueued, drawn) ==
            Ended(trace, raised,
                  [enqueued |-> enqueued, drawn |-> drawn,
                   pool |-> IF raised \in {"none", "DatabaseError"}
                            THEN pool ELSE 0,
                   passed |-> enqueued /\ (pool > 1 \/ draws[1])],
                  fetches /\ ft.called_api)
    IN  IF fetches /\ ft.raised # "none" THEN end(ft.raised, FALSE, 0)
        ELSE IF rnd.track /\ ~sized THEN end("TypeError", FALSE, 0)
        ELSE IF pool = 0 THEN end("none", FALSE, 0)
        ELSE IF pool = 1 THEN end("none", TRUE, 0)
        ELSE LET d == autoplay_draw(pool, draws, 0)
             IN  IF d < 0 THEN end("DatabaseError", FALSE, pool - 1)
                 ELSE end("none", TRUE, d)

Playlists == 0..MaxTracks

---------------------------------------------------------------------------
(* The steps of the resolution operations. One operation is in flight at  *)
(* a time; the two Spotify batches take one step per track, and flushes   *)
(* run between the steps.                                                  *)
RECURSIVE StageAll(_, _, _, _)
StageAll(m, ctx, trace, n) ==
    IF trace = <<>> THEN m
    ELSE LET e == Head(trace)
         IN  IF e.type = "stage"
             THEN StageAll(append_task(m, ctx, e.what,
                                       TaskV(n, e.table, e.payload), NoneId),
                           ctx, Tail(trace), n + 1)
             ELSE StageAll(m, ctx, Tail(trace), n)

Staged(trace) == SelectSeq(trace, LAMBDA e : e.type = "stage")
Written(trace, op) ==
    {[method |-> trace[i].what, table |-> trace[i].table,
      data |-> trace[i].payload, by |-> op] :
     i \in {j \in 1..Len(trace) : trace[j].type = "write"}}

FetchArgs(is_local, forced, lazy, x) ==
    [is_local |-> is_local, forced |-> forced, lazy |-> lazy,
     cache |-> x.cache, api |-> x.api]

\* the effect of one step made for request ctx: what it stages is handed
\* to append_task in order, what it writes at once reaches the store
Step(ctx, op, step, level, args, r, batch2) ==
    /\ nextOp + Len(Staged(r.trace)) <= MaxSerial + 1
    /\ _tasks' = StageAll(_tasks, ctx, r.trace, nextOp)
    /\ nextOp' = nextOp + Len(Staged(r.trace))
    /\ storeCalls' = storeCalls \cup Written(r.trace, op)
    /\ res' = [op |-> op, step |-> step, level |-> level, args |-> args,
               trace |-> r.trace, raised |-> r.raised, ret |-> r.ret,
               called_api |-> r.called_api, before |-> batch]
    /\ batch' = batch2
    /\ nRes' = IF step \in {"call", "start"} THEN nRes + 1 ELSE nRes
    /\ last' = NoFlush
    /\ taking' = NoTake
    /\ UNCHANGED <<_lock, pc, fl, takers, runTable>>

\* a new operation can start
Idle == batch = NoBatch /\ nRes < MaxRes

FetchTrack(ctx) ==
    /\ Idle
    /\ \E level \in Levels, is_local \in BOOLEAN, forced \in BOOLEAN,
          lazy \in BOOLEAN :
        \E x \in FetchInputs(level, is_local, forced, lazy) :
            Step(ctx, "fetch_track", "call", level,
                 FetchArgs(is_local, forced, lazy, x),
                 fetch_track(level, is_local, "q", forced, lazy, x.cache, x.api),
                 NoBatch)

YoutubeQuery(ctx) ==
    /\ Idle
    /\ \E level \in Levels :
        \E x \in YoutubeInputs(level) :
            Step(ctx, "youtube_query", "call", level, NoArgs,
                 youtube_query(level, "t", x.cache, x.api), NoBatch)

SpotifyQuery(ctx) ==
    /\ Idle
    /\ \E level \in Levels, query_type \in {"track", "playlist"},
          skip_youtube \in BOOLEAN :
        LET lookup == query_type = "track" /\ is_subset("spotify", level)
        IN  \E cache \in IF lookup THEN SpotifyRows ELSE {NoAnswer} :
            LET s == spotify_query_start(level, query_type, cache)
                missed == s.raised = "none" /\ ~s.hit
            IN  \E listing \in IF ~missed THEN {Listing(0)}
                               ELSE IF query_type = "track"
                               THEN {ListingFails, Listing(1)}
                               ELSE Listings :
                LET l == spotify_listing(listing)
                    r == IF ~missed
                         THEN Ended(s.trace, s.raised, <<s.val>>, FALSE)
                         ELSE Ended(s.trace \o l.trace, l.raised, <<>>, FALSE)
                IN  Step(ctx, "spotify_query", "start", level, NoArgs, r,
                         IF missed /\ l.raised = "none"
                         THEN [NoBatch EXCEPT !.kind = "spotify_query",
                                              !.ctx = ctx, !.level = level,
                                              !.skip_youtube = skip_youtube,
                                              !.total = listing.n,
                                              !.listing = TracksOf(listing.n)]
                         ELSE NoBatch)

QueryTrack ==
    /\ batch.kind = "spotify_query"
    /\ batch.pos < batch.total
    /\ \E invalid \in BOOLEAN :
        \E x \in IF invalid \/ batch.skip_youtube
                 THEN {[cache |-> NoAnswer, api |-> "unused"]}
                 ELSE YoutubeInputs(batch.level) :
            LET track_info == next_track(batch.listing, batch.pos)
                t == query_track(batch.level, batch.skip_youtube, invalid,
                                 track_info, x.cache, x.api,
                                 Len(batch.entries), batch.total)
                urls == IF t.url = NoneV THEN batch.urls
                        ELSE Append(batch.urls, t.url)
                entries == IF t.entry THEN Append(batch.entries, track_info)
                           ELSE batch.entries
            IN  Step(batch.ctx, "spotify_query", "track", batch.level, NoArgs,
                     Ended(t.trace, t.raised, urls, FALSE),
                     IF t.raised # "none" THEN NoBatch
                     ELSE [batch EXCEPT !.pos = @ + 1, !.urls = urls,
                                        !.entries = entries])

QueryEnd ==
    /\ batch.kind = "spotify_query"
    /\ batch.pos = batch.total
    /\ Step(batch.ctx, "spotify_query", "end", batch.level, NoArgs,
            Ended(stage_entries(batch.level, batch.entries), "none",
                  batch.urls, FALSE),
            NoBatch)

\* the player and the settings a batch is run with
Player(enqueue, maxlength, queue, current) ==
    [enqueue |-> enqueue, maxlength |-> maxlength, queue |-> queue,
     current |-> current]
IdlePlayer == Player(TRUE, 0, 0, FALSE)
Queues == {0, QueueCap - 1, QueueCap}
Players ==
    {Player(FALSE, 0, 0, FALSE)}
        \cup {Player(TRUE, m, q, c) : m \in {0, 1}, q \in Queues, c \in BOOLEAN}

\* lines 402-429: the listing is fetched; an empty one ends the operation
\* with a notice
EnqueueStart(ctx, level, listing, player) ==
    LET l == spotify_listing(listing)
        empty == ~listing.raise /\ listing.n < 1
        r == Ended(l.trace \o (IF empty
                               THEN <<unlock(ctx), Notice("", "unsupported")>>
                               ELSE <<>>),
                   l.raised, <<>>, FALSE)
    IN  Step(ctx, "spotify_enqueue", "start", level, NoArgs,
             IF listing.raise \/ empty THEN release(ctx, r) ELSE r,
             IF ~listing.raise /\ listing.n >= 1
             THEN [NoBatch EXCEPT !.kind = "spotify_enqueue", !.ctx = ctx,
                                  !.level = level, !.total = listing.n,
                                  !.listing = TracksOf(listing.n),
                                  !.enqueue = player.enqueue,
                                  !.maxlength = player.maxlength,
                                  !.queue = player.queue,
                                  !.current = player.current]
             ELSE NoBatch)

\* spotify_enqueue under any cache level, with an idle player
SpotifyEnqueue(ctx) ==
    /\ Idle
    /\ \E level \in Levels, listing \in Listings :
        EnqueueStart(ctx, level, listing, IdlePlayer)

\* the listings of the batches run with the caches disabled: the empty
\* one, the short ones, and one that is longer than the run of failures the
\* loop allows
LongListing == Listing(FailLimit + 1)
PlayerListings == {Listing(n) : n \in 0..MaxTracks} \cup {LongListing}

\* spotify_enqueue with the caches disabled, on any player
EnqueueOnPlayer(ctx) ==
    /\ Idle
    /\ \E listing \in PlayerListings :
        \E player \in IF listing.n \in 1..MaxTracks THEN Players
                       ELSE {IdlePlayer} :
            EnqueueStart(ctx, {}, listing, player)

\* what is_allowed answers: the filter rejects nothing in the long listing
Filters(b) == IF b.total > MaxTracks + 1 THEN {TRUE} ELSE BOOLEAN

EnqueueTrack ==
    /\ batch.kind = "spotify_enqueue"
    /\ ~batch.broke
    /\ batch.pos < batch.total
    /\ \E y \in YoutubeInputs(batch.level) :
        LET resolved == y.cache.kind = "str" \/ y.api = "url"
        IN  \E x \in IF resolved THEN BatchFetchInputs(batch.level)
                     ELSE {[cache |-> NoAnswer, api |-> NoAnswer]} :
            \E allowed \in Filters(batch), within \in BOOLEAN :
                LET track_info == next_track(batch.listing, batch.pos)
                    t == enqueue_track(batch.ctx, batch.level, track_info,
                                       y.cache, y.api,
                                       x.cache, x.api, allowed, batch.fails,
                                       batch.pos, batch.total)
                    track_list == IF t.accepted
                                  THEN Append(batch.track_list, track_info)
                                  ELSE batch.track_list
                    limited == /\ t.accepted /\ batch.enqueue
                               /\ batch.maxlength > 0
                               /\ ~queue_full(batch.queue)
                    p == IF t.accepted
                         THEN enqueue_add(batch, track_info, within)
                         ELSE [queue |-> batch.queue, current |-> batch.current,
                               enqueued |-> batch.enqueued, trace |-> <<>>]
                IN  /\ allowed \/ (t.raised = "none" /\ ~t.broke /\ t.tracks > 0)
                    /\ within \/ limited
                    /\ Step(batch.ctx, "spotify_enqueue", "track", batch.level,
                            FetchArgs(FALSE, FALSE, FALSE, x),
                            LET r == Ended(t.trace \o p.trace, t.raised,
                                           track_list, FALSE)
                            IN  IF t.raised # "none"
                                THEN release(batch.ctx, r) ELSE r,
                            IF t.raised # "none" THEN NoBatch
                            ELSE [batch EXCEPT
                                     !.pos = @ + 1,
                                     !.entries = Append(@, track_info),
                                     !.accepted = Len(track_list),
                                     !.track_list = track_list,
                                     !.has_not_allowed = @ \/ t.filtered,
                                     !.fails = t.fails,
                                     !.broke = t.broke,
                                     !.aborted = t.aborted,
                                     !.queue = p.queue,
                                     !.current = p.current,
                                     !.enqueued = p.enqueued])

EnqueueEnd ==
    /\ batch.kind = "spotify_enqueue"
    /\ batch.broke \/ batch.pos = batch.total
    /\ Step(batch.ctx, "spotify_enqueue", "end", batch.level, NoArgs,
            release(batch.ctx,
                    enqueue_end(batch.ctx, batch.level, batch.entries,
                                batch.track_list, batch.has_not_allowed,
                                batch.enqueue)),
            NoBatch)

\* ctx = namedtuple("Context", "message"): what autoplay stages is keyed by
\* the id of the guild
Autoplay(guild) ==
    /\ Idle
    /\ \E level \in Levels, playlist \in Playlists :
        LET listed == playlist >= 1
            reads == ~listed /\ is_subset("lavalink", level)
        IN  \E db \in IF reads THEN {"raise", "None", "track"} ELSE {"unused"} :
            \E sized \in IF db = "track" THEN BOOLEAN ELSE {TRUE} :
            \E x \in IF ~listed /\ db # "track"
                     THEN FetchInputs(level, FALSE, FALSE, FALSE)
                     ELSE {[cache |-> NoAnswer, api |-> NoAnswer]} :
            \E draws \in IF listed /\ playlist > 1
                         THEN [1..(playlist - 1) -> BOOLEAN]
                         ELSE [1..1 -> BOOLEAN] :
                Step(guild, "autoplay", "call", level,
                     FetchArgs(FALSE, FALSE, FALSE, x),
                     autoplay(level, playlist, db, sized, x.cache, x.api, draws),
                     NoBatch)

NextR ==
    \/ \E ctx \in Ids : FetchTrack(ctx)
    \/ \E ctx \in Ids : YoutubeQuery(ctx)
    \/ \E ctx \in Ids : SpotifyQuery(ctx)
    \/ QueryTrack
    \/ QueryEnd
    \/ \E ctx \in Ids : SpotifyEnqueue(ctx)
    \/ EnqueueTrack
    \/ EnqueueEnd
    \/ \E guild \in Ids : Autoplay(guild)
    \/ \E p \in Calls, ctx \in Ids : RunTasks(p, ctx, NoneId)
    \/ \E p \in Calls : RunAllPendingTasks(p)
    \/ \E p \in Calls : Gather(p)

InitR == Init /\ runTable = "lavalink"

SpecR == InitR /\ [][NextR]_vars

\* fetch_track on its own
NextF == \E ctx \in Ids : FetchTrack(ctx)

SpecF == InitR /\ [][NextF]_vars

\* autoplay on its own
NextA == \E guild \in Ids : Autoplay(guild)

SpecA == InitR /\ [][NextA]_vars

\* the arguments of a listing and the pages it was answered with
ListingArgs(query_type, pages) ==
    [is_local |-> FALSE, forced |-> FALSE, lazy |-> FALSE,
     cache |-> NoAnswer, api |-> NoAnswer, query_type |-> query_type,
     pages |-> pages]

\* _spotify_fetch_tracks called by spotify_query or spotify_enqueue
SpotifyFetchTracks(ctx) ==
    /\ Idle
    /\ \E query_type \in {"track", "album", "playlist"} :
        \E pages \in PageLists(query_type) :
            LET l == _spotify_fetch_tracks(query_type, pages)
            IN  Step(ctx, "_spotify_fetch_tracks", "call", {},
                     ListingArgs(query_type, pages),
                     Ended(l.trace, l.raised, TracksOf(l.n), FALSE), NoBatch)

\* the listing on its own
NextL == \E ctx \in Ids : SpotifyFetchTracks(ctx)

SpecL == InitR /\ [][NextL]_vars

\* spotify_enqueue on its own, with the caches disabled
NextQ ==
    \/ \E ctx \in Ids : EnqueueOnPlayer(ctx)
    \/ EnqueueTrack
    \/ EnqueueEnd

SpecQ == InitR /\ [][NextQ]_vars

---------------------------------------------------------------------------
(* The claims about the deferred write queue. *)

\* the store write a staged operation stands for
WriteOf(o, by) ==
    [method |-> o.event, table |-> o.task.table, data |-> o.task.payload,
     by |-> by]

\* C1: when run_tasks has flushed a request id (and nothing went wrong
\* inside it), every operation that was staged for the id has reached the
\* matching store method with its payload: insert -> T.insert(payload),
\* update -> T.update(payload).
C1_StagedOperationsReachTheStore ==
    (last.kind = "run_tasks" /\ last.found /\ last.exc = "none") =>
        \A o \in last.staged : WriteOf(o, "run_tasks") \in last.calls

\* C2: each staged operation is taken by at most one flush, at most one
\* flush is between its take and its release of the lock, and what is
\* pending (staged after a take, under the same id or another) is never
\* among the operations a flush in flight holds.
C2_FlushesExcludeEachOther ==
    /\ \A n \in DOMAIN takers : takers[n] <= 1
    /\ Cardinality({p \in Calls : pc[p] = "gather"}) <= 1
    /\ \A p \in Calls :
          pc[p] = "gather" => fl[p].taken \cap OpsOfMap(_tasks) = {}

\* C2 witness: a run_tasks flush is suspended at its gather holding the
\* operations it took, and its own id has a new pending set staged since.
C2_Witness ==
    \E p \in Calls :
        /\ pc[p] = "gather"
        /\ fl[p].kind = "run_tasks"
        /\ fl[p].taken # {}
        /\ Has(_tasks, fl[p].lock_id)
        /\ OpsOfSet(GetV(_tasks, fl[p].lock_id)) # {}

\* C3: the lock-guarded part of run_tasks for request id R leaves no
\* pending set for R and leaves the pending set of every other id as it
\* was, however R was given (ctx.message.id, or message_id with ctx absent
\* or of another message).
C3_RunTasksRemovesItsIdOnly ==
    (taking.kind = "run_tasks" /\ taking.lock_id # NoneId) =>
        /\ ~Has(taking.after, taking.lock_id)
        /\ \A k \in Keys(taking.before) \ {taking.lock_id} :
              /\ Has(taking.after, k)
              /\ GetV(taking.after, k) = GetV(taking.before, k)

C5_CategoriesFailAlone ==
    (last.kind = "run_tasks" /\ last.exc = "TypeError") =>
        \A i \in 1..3 :
            LET mine == {o \in last.staged : o.event = Categories[i]}
            IN  (mine # {} /\ Cardinality(mine) <= 3) => i \in last.routed

\* C6: run_all_pending_tasks returns normally, every operation staged
\* under any id has reached its store method, nothing staged before the
\* call is pending after it, and with nothing pending no store method is
\* invoked.
C6_RunAllFlushesEveryId ==
    last.kind = "run_all_pending_tasks" =>
        /\ ~last.toCaller
        /\ \A o \in last.staged :
              WriteOf(o, "run_all_pending_tasks") \in last.calls
        /\ last.taken \cap OpsOfMap(_tasks) = {}
        /\ last.staged = {} => last.calls = {}

---------------------------------------------------------------------------
(* The claims about the resolution operations. *)

\* the events of the resolution step just taken
Events == {res.trace[i] : i \in 1..Len(res.trace)}

\* C7: no store insert or update is invoked by append_task or by a
\* resolution operation: a step of one issues no store write, and every
\* write the store has received was issued by run_tasks or by
\* run_all_pending_tasks.
C7_OnlyFlushesWrite ==
    /\ \A e \in Events : e.type # "write"
    /\ \A c \in storeCalls : c.by \in {"run_tasks", "run_all_pending_tasks"}

\* C7 witness: a resolution step staged operations, they are pending in
\* the queue, and the store has received nothing.
C7_Witness ==
    /\ res.op = "spotify_enqueue"
    /\ \E e \in Events : e.type = "stage" /\ e.what = "insert"
    /\ \E e \in Events : e.type = "stage" /\ e.what = "update"
    /\ OpsOfMap(_tasks) # {}
    /\ storeCalls = {}

\* C8: a fetch_one that raises during spotify_query, youtube_query, a
\* batch iteration or a non-lazy fetch_track does not end the operation
\* with the storage exception, and the next thing the operation does is
\* to call the external provider of that table for the same key.
C8_StorageFaultsFailOpen ==
    (res.op # "none" /\ ~res.args.lazy) =>
        /\ res.raised # "StorageError"
        /\ \A i \in 1..Len(res.trace) :
              (res.trace[i].type = "read" /\ res.trace[i].what = "raise") =>
                  /\ i < Len(res.trace)
                  /\ res.trace[i + 1].type = "api"
                  /\ res.trace[i + 1].table = res.trace[i].table
                  /\ res.trace[i + 1].key = res.trace[i].key

\* C8 witness: in one batch iteration both the YouTube-table and the
\* Lavalink-table fetch_one raised, both providers were called and the
\* iteration ended normally.
C8_Witness ==
    /\ res.op = "spotify_enqueue"
    /\ res.step = "track"
    /\ res.raised = "none"
    /\ \E e \in Events : e.type = "read" /\ e.what = "raise" /\ e.table = "youtube"
    /\ \E e \in Events : e.type = "read" /\ e.what = "raise" /\ e.table = "lavalink"
    /\ \E e \in Events : e.type = "api" /\ e.table = "youtube"
    /\ \E e \in Events : e.type = "api" /\ e.table = "lavalink"

\* C9: during an operation whose cache level does not include the scope
\* of a table, that table is not read and no insert or update for it is
\* staged, whatever the other two scopes are.
C9_DisabledScopeUntouched ==
    \A e \in Events :
        e.type \in {"read", "random", "stage", "write"} => e.table \in res.level

\* C9 witness: a batch iteration run with the YouTube scope only read and
\* staged for the YouTube table, and obtained a cacheable playable track
\* from the provider without touching the Lavalink table.
C9_Witness ==
    /\ res.op = "spotify_enqueue"
    /\ res.step = "track"
    /\ res.level = {"youtube"}
    /\ \E e \in Events : e.type = "read" /\ e.table = "youtube"
    /\ \E e \in Events : e.type = "stage" /\ e.table = "youtube"
    /\ \E e \in Events : e.type = "api" /\ e.table = "lavalink" /\ e.what = "result"
    /\ res.args.api.tracks > 0 /\ res.args.api.shape

\* C10: when fetch_track gets a Lavalink-table hit that fetch_one flags
\* as needing revalidation, it calls the playable-track provider before it
\* returns, and returns the cached value only if that call failed.
C10_StaleHitIsRevalidated ==
    (/\ res.op = "fetch_track"
     /\ ~res.args.lazy
     /\ \E e \in Events : e.type = "read" /\ e.what = "dict"
     /\ res.args.cache.update) =>
        /\ \E e \in Events : e.type = "api" /\ e.table = "lavalink"
        /\ (res.raised = "none" /\ res.ret.kind = "cache") =>
              \E e \in Events : e.type = "api" /\ e.what # "result"

\* the calls of the external provider of a table made by the step just taken
ApiCalls(table) ==
    {i \in 1..Len(res.trace) :
        res.trace[i].type = "api" /\ res.trace[i].table = table}

\* C11: a fetch_track that is neither forced nor lazy and finds a cached
\* Lavalink entry whose LoadResult reports an error calls the playable-track
\* provider exactly once and, when it returns, returns the fresh result with
\* called_api true, never the cached one; when the cached entry is free of
\* error the provider is not called, the cached result is returned and
\* called_api is false.
C11_ErroredHitIsRefetched ==
    (/\ res.op = "fetch_track"
     /\ ~res.args.forced
     /\ ~res.args.lazy
     /\ \E e \in Events : e.type = "read" /\ e.what = "dict") =>
        IF res.args.cache.has_error
        THEN /\ Cardinality(ApiCalls("lavalink")) = 1
             /\ res.raised = "none" =>
                   /\ res.called_api
                   /\ res.ret.kind \in {"api", "failed"}
                   /\ res.args.api.kind = "result" =>
                         res.ret = LoadResult("api", res.args.api)
        ELSE /\ ApiCalls("lavalink") = {}
             /\ res.raised = "none"
             /\ ~res.called_api
             /\ res.ret = LoadResult("cache", res.args.cache)

\* C11 witness: an errored cached entry was found and the fresh, error-free
\* result of the provider was returned with called_api true.
C11_Witness ==
    /\ res.op = "fetch_track"
    /\ ~res.args.forced /\ ~res.args.lazy
    /\ \E e \in Events : e.type = "read" /\ e.what = "dict"
    /\ res.args.cache.has_error
    /\ res.raised = "none"
    /\ res.called_api
    /\ res.ret.kind = "api" /\ ~res.ret.has_error /\ res.ret.tracks > 0

\* C13: fetch_track stages a Lavalink-table insert only for the result it
\* returns, and only if that result has no error, has at least one track,
\* belongs to a query that is not local and has a serialized response that
\* holds loadType, playlistInfo, isSeekable and isStream; a LOAD_FAILED,
\* errored, empty or incompletely shaped result is never staged.
C13_OnlySoundResultsAreStaged ==
    res.op = "fetch_track" =>
        \A e \in Events :
            (e.type = "stage" /\ e.what = "insert" /\ e.table = "lavalink") =>
                /\ res.raised = "none"
                /\ res.ret.kind # "failed"
                /\ ~res.ret.has_error
                /\ res.ret.tracks > 0
                /\ res.ret.shape
                /\ ~res.args.is_local

\* C13 witness: the provider answered with an error-free, non-empty and
\* fully shaped result for a query that is not local and the insert was
\* staged.
C13_Witness ==
    /\ res.op = "fetch_track"
    /\ \E e \in Events : e.type = "api" /\ e.table = "lavalink" /\ e.what = "result"
    /\ \E e \in Events :
          e.type = "stage" /\ e.what = "insert" /\ e.table = "lavalink"
    /\ res.ret.kind = "api"

---------------------------------------------------------------------------
(* The claims about spotify_enqueue. *)

\* the exceptions of the playable-track provider that stand for a
\* connection reset or a timeout
TransportFailures == {"RuntimeError", "ServerDisconnectedError", "TimeoutError"}

\* the notices shown by the step just taken
Notices == {e.what : e \in {x \in Events : x.type = "notice"}}

\* C12: when the playable-track fetch of a track of spotify_enqueue fails
\* with a connection reset or a timeout, the iteration raises nothing, shows
\* a notice and leaves the loop, and the operation then returns the tracks
\* accepted so far, possibly none, without raising.
C12_TransportFailureEndsBatchQuietly ==
    /\ (/\ res.op = "spotify_enqueue"
         /\ res.step = "track"
         /\ res.args.api.kind \in TransportFailures) =>
            /\ res.raised = "none"
            /\ Notices \cap {"reset", "timeout"} # {}
            /\ batch.broke
    /\ (/\ res.op = "spotify_enqueue"
         /\ res.step = "end"
         /\ res.before.aborted \in {"reset", "timeout"}) =>
            /\ res.raised = "none"
            /\ res.ret = res.before.track_list

\* C14: for a listing of at least one track, spotify_enqueue raises the
\* nothing-found SpotifyFetchError exactly when the loop ends with no
\* accepted track and no track rejected by the content filter, and never
\* from inside the loop; with no accepted track and a rejected one it
\* returns the empty list; and the iteration that rejects a track leaves
\* the loop running at the next track.
C14_NothingFoundUnlessFiltered ==
    /\ (res.op = "spotify_enqueue" /\ res.step = "end") =>
          /\ res.raised = "SpotifyFetchError" <=>
                (res.before.track_list = <<>> /\ ~res.before.has_not_allowed)
          /\ res.raised \in {"none", "SpotifyFetchError"}
          /\ res.raised = "none" => res.ret = res.before.track_list
    /\ (res.op = "spotify_enqueue" /\ res.step = "track") =>
          /\ res.raised # "SpotifyFetchError"
          /\ (batch.has_not_allowed /\ ~res.before.has_not_allowed) =>
                /\ ~batch.broke
                /\ batch.pos = res.before.pos + 1
                /\ batch.track_list = res.before.track_list

\* C14 witness: every track of a listing of two or more was processed, none
\* was accepted, one was rejected by the filter, and the empty list was
\* returned without an error.
C14_Witness ==
    /\ res.op = "spotify_enqueue" /\ res.step = "end"
    /\ res.before.total >= 2
    /\ res.before.pos = res.before.total
    /\ res.before.track_list = <<>>
    /\ res.before.has_not_allowed
    /\ res.raised = "none"
    /\ res.ret = <<>>

\* C15: once 10 consecutive tracks of a spotify_enqueue batch have given an
\* empty track object, the iteration of the next track calls neither the
\* YouTube nor the playable-track provider, shows the "skipping remaining"
\* notice, leaves the loop and enqueues nothing.
C15_NoCallsAfterTenFailures ==
    (/\ res.op = "spotify_enqueue"
     /\ res.step = "track"
     /\ res.before.fails >= FailLimit) =>
        /\ \A e \in Events : e.type # "api"
        /\ "failing" \in Notices
        /\ batch.broke
        /\ batch.enqueued = res.before.enqueued

\* the places of the step's trace that hold an event of a type
Places(type) == {i \in 1..Len(res.trace) : res.trace[i].type = type}

\* C16: spotify_enqueue never adds a track to a player queue that already
\* holds 10,000 tracks or more, so that a queue of at most 10,000 tracks
\* before the operation never holds more than 10,000 during it; and every
\* player.add is followed at once by the one enqueue event of its track,
\* and no enqueue event is dispatched without it.
C16_QueueCapAndPairedEvents ==
    /\ batch.kind = "spotify_enqueue" => batch.queue <= QueueCap
    /\ (res.op = "spotify_enqueue" /\ res.step = "track") =>
          /\ Places("add") # {} => res.before.queue < QueueCap
          /\ Cardinality(Places("add")) <= 1
          /\ res.before.queue + Cardinality(Places("add")) <= QueueCap
          /\ \A i \in Places("add") :
                /\ i < Len(res.trace)
                /\ res.trace[i + 1].type = "dispatch"
                /\ res.trace[i + 1].key = res.trace[i].key
          /\ \A i \in Places("dispatch") :
                /\ i > 1
                /\ res.trace[i - 1].type = "add"

\* C16 witness: a track was accepted for a queue that held 10,000 tracks and
\* was not added to it.
C16_Witness ==
    /\ res.op = "spotify_enqueue" /\ res.step = "track"
    /\ res.before.enqueue
    /\ res.before.queue = QueueCap
    /\ batch.track_list # res.before.track_list
    /\ Places("add") = {}
    /\ batch.queue = QueueCap

\* C17: an iteration of spotify_enqueue calls player.play only if the player
\* has no current track and only directly after the track of the iteration
\* was added to the queue; an iteration whose track was not added, because
\* it is over the maximal length of the guild or because the queue is at
\* its cap, does not start playback.
C17_PlayOnlyAfterAdd ==
    (res.op = "spotify_enqueue" /\ res.step = "track") =>
        \A i \in Places("play") :
            /\ ~res.before.current
            /\ i > 2
            /\ res.trace[i - 1].type = "dispatch"
            /\ res.trace[i - 2].type = "add"
            /\ res.trace[i - 2].key = res.trace[i].key

\* the value v stands for the track k of a listing, or for its URL
Concerns(v, k) == v \in {k, Url(k)}

\* the values of s stand for tracks of the listing t, in the order of t
RECURSIVE InOrder(_, _)
InOrder(s, t) ==
    IF s = <<>> THEN TRUE
    ELSE IF t = <<>> THEN FALSE
    ELSE IF Concerns(Head(s), Head(t)) THEN InOrder(Tail(s), Tail(t))
    ELSE InOrder(s, Tail(t))

---------------------------------------------------------------------------
(* The claims about the Spotify listing. *)

\* C19: whenever the Spotify client answers a call made for a listing, the
\* first or one made with a next cursor, with an error envelope of status
\* 401, _spotify_fetch_tracks raises SpotifyFetchError and returns no list.
C19_UnauthorizedListingRaises ==
    (/\ res.op = "_spotify_fetch_tracks"
     /\ \E e \in Events : e.type = "api" /\ e.what = "401") =>
        res.raised = "SpotifyFetchError"

\* C20: with the Spotify scope enabled, when the loop of spotify_query or
\* of spotify_enqueue is over, because every track was processed or because
\* the loop was left early, the operation ends having staged a
\* Spotify-table insert that holds every track it took from the listing,
\* whether it returns or raises the nothing-found error.
C20_ExtractedTracksAreStaged ==
    (/\ res.op \in {"spotify_query", "spotify_enqueue"}
     /\ res.step = "end"
     /\ is_subset("spotify", res.level)) =>
        \E e \in Events :
            /\ e.type = "stage" /\ e.what = "insert" /\ e.table = "spotify"
            /\ \A i \in 1..Len(res.before.entries) :
                  \E j \in 1..Len(e.payload.items) :
                      e.payload.items[j] = res.before.entries[i]

---------------------------------------------------------------------------
(* Further claims about fetch_track. *)

\* the Lavalink-table inserts staged by the step just taken
LavalinkInserts ==
    {i \in 1..Len(res.trace) :
        /\ res.trace[i].type = "stage"
        /\ res.trace[i].what = "insert"
        /\ res.trace[i].table = "lavalink"}

\* C22: a lazy fetch_track never calls the playable-track provider and
\* reports called_api false, whatever the cache returns; and when it reads
\* a valid error-free entry of the Lavalink table it returns the result
\* held by that entry.
C22_LazyServesTheCache ==
    (res.op = "fetch_track" /\ res.args.lazy) =>
        /\ ApiCalls("lavalink") = {}
        /\ ~res.called_api
        /\ (/\ \E e \in Events : e.type = "read" /\ e.what = "dict"
            /\ ~res.args.cache.has_error) =>
               /\ res.raised = "none"
               /\ res.ret = LoadResult("cache", res.args.cache)

\* C27: a fetch_track call stages at most one Lavalink-table insert, and
\* stages one only if it called the playable-track provider and reports
\* called_api true; a hit on an error-free entry stages the timestamp
\* update and no insert.
C27_InsertOnlyAfterProviderCall ==
    res.op = "fetch_track" =>
        /\ Cardinality(LavalinkInserts) <= 1
        /\ LavalinkInserts # {} =>
              (res.called_api /\ ApiCalls("lavalink") # {})
        /\ (/\ ~res.args.lazy
            /\ \E e \in Events : e.type = "read" /\ e.what = "dict"
            /\ ~res.args.cache.has_error) =>
               /\ LavalinkInserts = {}
               /\ \E e \in Events : e.type = "stage" /\ e.what = "update"

---------------------------------------------------------------------------
(* The claims about autoplay. *)

\* C21: when autoplay finds no valid candidate in a pool of N > 1 tracks,
\* it has drawn exactly N candidates when it raises DatabaseError, and it
\* has enqueued no track.
C21_PoolIsExhausted ==
    (/\ res.op = "autoplay"
     /\ res.raised = "DatabaseError") =>
        /\ res.ret.pool > 1
        /\ res.ret.drawn = res.ret.pool
        /\ ~res.ret.enqueued

\* C26: every track that autoplay tags and enqueues passes the validation
\* of its query, the check that its local file exists and the content
\* filter, whatever the size of the pool.
C26_EnqueuedTrackPassedTheChecks ==
    (res.op = "autoplay" /\ res.ret.enqueued) => res.ret.passed

---------------------------------------------------------------------------
(* Further claims about the Spotify batches. *)

\* the events of a type and a kind of the step just taken, for a table
Staging(what, table) ==
    {i \in 1..Len(res.trace) :
        /\ res.trace[i].type = "stage"
        /\ res.trace[i].what = what
        /\ res.trace[i].table = table}
ReadAs(table, whats) ==
    \E e \in Events : e.type = "read" /\ e.table = table /\ e.what \in whats

\* C23: in an iteration of the loop of _spotify_first_time_query or of
\* spotify_enqueue run with the YouTube scope: if the YouTube table holds a
\* URL for the track, the YouTube provider is not called and one timestamp
\* update is staged; if it holds none, the provider is called exactly once,
\* an insert is staged exactly when the provider returns a URL, and no
\* timestamp update is staged.
C23_HitUpdatesMissInserts ==
    (/\ res.op \in {"spotify_query", "spotify_enqueue"}
     /\ res.step = "track"
     /\ is_subset("youtube", res.level)) =>
        /\ ReadAs("youtube", {"str"}) =>
              /\ ApiCalls("youtube") = {}
              /\ Cardinality(Staging("update", "youtube")) = 1
              /\ Staging("insert", "youtube") = {}
        /\ ReadAs("youtube", {"None", "raise"}) =>
              /\ Cardinality(ApiCalls("youtube")) = 1
              /\ Staging("insert", "youtube") # {} <=>
                    (\E e \in Events : e.type = "api" /\ e.table = "youtube"
                                          /\ e.what = "url")
              /\ Cardinality(Staging("insert", "youtube")) <= 1
              /\ Staging("update", "youtube") = {}

\* the track of the iteration just made resolved to a non-empty track object
Resolved ==
    \/ /\ \E e \in Events : e.type = "api" /\ e.table = "lavalink"
                               /\ e.what = "result"
       /\ res.args.api.tracks > 0
    \/ /\ ReadAs("lavalink", {"dict"})
       /\ ~res.args.cache.has_error
       /\ res.args.cache.tracks > 0

\* C24: an iteration of spotify_enqueue whose track resolved to a non-empty
\* track object sets the count of consecutive failures to zero and goes on
\* to the content filter: it does not leave the loop with the "skipping
\* remaining" notice.
C24_SuccessResetsTheCount ==
    (/\ res.op = "spotify_enqueue"
     /\ res.step = "track"
     /\ res.raised = "none"
     /\ Resolved) =>
        /\ batch.fails = 0
        /\ ~batch.broke
        /\ "failing" \notin Notices

\* the progress notifications of the step just taken
Progress == {e \in Events : e.type = "progress"}

\* the step just taken ran an iteration of a batch loop to its end for the
\* n-th track of the listing
Iterated(n) ==
    /\ res.op \in {"spotify_query", "spotify_enqueue"}
    /\ res.step = "track"
    /\ res.raised = "none"
    /\ "timeout" \notin Notices /\ "reset" \notin Notices
    /\ res.before.pos + 1 = n

\* C25: in the batches of _spotify_first_time_query and spotify_enqueue a
\* progress notification is issued on every second track of the listing,
\* and one is issued on the last track with current equal to the total of
\* the batch.
C25_ProgressOnEverySecondAndLast ==
    \A n \in 1..(FailLimit + 1) :
        Iterated(n) =>
            /\ n % 2 = 0 => Progress # {}
            /\ n = res.before.total =>
                   \E e \in Progress : e.key = ToString(res.before.total)
                                         /\ e.payload = Str(e.key)

\* the step just taken is the last one of a call of spotify_enqueue
EnqueueFinished ==
    /\ res.op = "spotify_enqueue"
    /\ \/ res.step = "end"
       \/ res.raised # "none"
       \/ res.step = "start" /\ batch = NoBatch

\* C28: on every way out of spotify_enqueue (the normal end, the return on
\* an empty listing, the end after the loop was left on a transport failure
\* or on the run of failures, and any exception) lock(ctx, False) is called,
\* and it is the last thing the call does.
C28_LockIsReleased ==
    EnqueueFinished =>
        /\ res.trace # <<>>
        /\ res.trace[Len(res.trace)].type = "unlock"
        /\ res.step # "start" =>
               res.trace[Len(res.trace)] = unlock(res.before.ctx)

\* the call ended on the exception of a track, and released the lock
C28_ReleasedOnException ==
    /\ res.op = "spotify_enqueue" /\ res.step = "track"
    /\ res.raised # "none"
    /\ res.trace[Len(res.trace)] = unlock(res.before.ctx)

====
